---- MODULE Spec2Model ----
(***************************************************************************)
(* Model of the session coordinator of sync-audio-hub (src/server.js): the *)
(* per-room playback session kept in the `rooms` map and the socket.io     *)
(* handlers that read and write it.  Every handler of the source is        *)
(* synchronous (no await, no callback), so Node runs it to completion: one *)
(* handler invocation is one action here.                                  *)
(*                                                                         *)
(* src/unnamed/part_000 is the single-room variant of the same server: the *)
(* same four session fields as module-level variables, the same handlers,  *)
(* io.emit in place of io.to(roomId).emit.  It behaves as this model does  *)
(* with every connection in one room.                                      *)
(***************************************************************************)
EXTENDS Integers, Sequences, FiniteSets, TLC

(***************************************************************************)
(* Bounds of the model.                                                    *)
(***************************************************************************)
MaxEvents == 3      \* commands, pings and clock advances in a run of Spec
MaxRoomEvents == 2  \* commands, pings and clock advances in a run of SpecRooms

\* The fixed lead of a defaulted anchor: `Date.now() + 500`.
LeadMs == 500

Sockets == {"s1", "s2"}
NoRoom == "-"

(***************************************************************************)
(* JavaScript values that reach the handlers.  A value is a record so that *)
(* values of different JavaScript types can be compared.                   *)
(***************************************************************************)
Undefined == [t |-> "undefined", n |-> 0, s |-> ""]
Null == [t |-> "null", n |-> 0, s |-> ""]
NaN == [t |-> "nan", n |-> 0, s |-> ""]
Num(k) == [t |-> "number", n |-> k, s |-> ""]
Str(x) == [t |-> "string", n |-> 0, s |-> x]

\* ToBoolean: undefined, null, NaN, 0 and "" are falsy.
Truthy(v) ==
  CASE v.t = "undefined" -> FALSE
    [] v.t = "null" -> FALSE
    [] v.t = "nan" -> FALSE
    [] v.t = "number" -> v.n # 0
    [] v.t = "string" -> v.s # ""

\* a || b
OrElse(a, b) == IF Truthy(a) THEN a ELSE b

\* A destructuring default `{ x = d }`: only undefined takes the default.
DefaultParam(v, d) == IF v = Undefined THEN d ELSE v

(***************************************************************************)
(* Inputs: the handshake queries and the payloads clients send.  A field   *)
(* the client left out reads as undefined when the handler destructures    *)
(* the payload.                                                            *)
(***************************************************************************)
Queries == {Undefined, Str(""), Str("r1")}
HomeQueries == {q \in Queries : ~Truthy(q)}
TrackSetPayloads == {[url |-> Str("a.mp3")], [url |-> Null], [url |-> Undefined]}
PlayPayloads ==
  {[startAtServerMs |-> Undefined, startPositionMs |-> Undefined],
   [startAtServerMs |-> Num(0), startPositionMs |-> Num(300)],
   [startAtServerMs |-> Num(900), startPositionMs |-> Num(300)]}
PausePayloads == {[positionMs |-> Num(300)], [positionMs |-> Undefined]}
SeekPayloads ==
  {[positionMs |-> Num(700), startAtServerMs |-> Undefined],
   [positionMs |-> Num(700), startAtServerMs |-> Num(900)],
   [positionMs |-> Num(700), startAtServerMs |-> Num(0)],
   [positionMs |-> NaN, startAtServerMs |-> Undefined]}
Pings == {Num(7)}

\* (socket.handshake.query?.room || '').toString() || 'default'
RoomIdOf(q) == OrElse(Str(OrElse(q, Str("")).s), Str("default")).s

RoomIds == {RoomIdOf(q) : q \in Queries}

(***************************************************************************)
(* The session of a room, and getRoom.                                     *)
(***************************************************************************)
NewSession ==
  [currentTrackUrl |-> Null,
   sessionStartAtServerMs |-> Null,
   sessionPaused |-> TRUE,
   sessionPauseAtPositionMs |-> Num(0)]

\* A getRoom that stores a new session on every call.
GetRoomAlwaysNew(m, roomId) ==
  [r \in DOMAIN m \cup {roomId} |-> IF r = roomId THEN NewSession ELSE m[r]]

\* getRoom's effect on the map: the entry is created on first reference.
GetRoom(m, roomId) ==
  IF roomId \in DOMAIN m THEN m ELSE m @@ (roomId :> NewSession)

\* The four fields sent in `welcome` and `track:updated`.
Snapshot(st) ==
  [currentTrackUrl |-> st.currentTrackUrl,
   sessionStartAtServerMs |-> st.sessionStartAtServerMs,
   sessionPaused |-> st.sessionPaused,
   sessionPauseAtPositionMs |-> st.sessionPauseAtPositionMs]

Msg(e, d) == [event |-> e, data |-> d]

\* A welcome that always reports a new session.
WelcomeFresh(roomId, st, t) ==
  Msg("welcome", [serverTimeMs |-> Num(t), roomId |-> roomId,
                  state |-> Snapshot(NewSession)])

\* The `welcome` message of io.on('connection').
Welcome(roomId, st, t) ==
  Msg("welcome", [serverTimeMs |-> Num(t), roomId |-> roomId,
                  state |-> Snapshot(st)])

\* Helper to normalize position to server time boundary.
SessionPauseAtServerMs(positionMs) == positionMs

(***************************************************************************)
(* The command handlers as functions of the room's session st, the payload *)
(* d and Date.now() = t: the session they leave and what they broadcast.   *)
(***************************************************************************)
\* A track:set that leaves sessionPaused as it was.
OnTrackSetKeepPaused(st, d, t) ==
  LET s1 == [st EXCEPT !.currentTrackUrl = d.url,
                       !.sessionStartAtServerMs = Null,
                       !.sessionPauseAtPositionMs = Num(0)]
  IN [st |-> s1, out |-> <<Msg("track:updated", Snapshot(s1))>>]

OnTrackSet(st, d, t) ==
  LET s1 == [st EXCEPT !.currentTrackUrl = d.url,
                       !.sessionStartAtServerMs = Null,
                       !.sessionPaused = TRUE,
                       !.sessionPauseAtPositionMs = Num(0)]
  IN [st |-> s1, out |-> <<Msg("track:updated", Snapshot(s1))>>]

\* A play without the check for a track.
OnPlayUnguarded(st, d, t) ==
  LET s1 == [st EXCEPT
               !.sessionPaused = FALSE,
               !.sessionPauseAtPositionMs =
                  DefaultParam(d.startPositionMs, Num(0)),
               !.sessionStartAtServerMs =
                  OrElse(d.startAtServerMs, Num(t + LeadMs))]
  IN [st |-> s1,
      out |-> <<Msg("play",
                [startAtServerMs |-> s1.sessionStartAtServerMs,
                 startPositionMs |-> s1.sessionPauseAtPositionMs])>>]

\* A play that stores the anchor time as supplied, without the default.
OnPlayNoDefault(st, d, t) ==
  IF ~Truthy(st.currentTrackUrl)
  THEN [st |-> st, out |-> <<>>]
  ELSE LET s1 == [st EXCEPT
                    !.sessionPaused = FALSE,
                    !.sessionPauseAtPositionMs =
                       DefaultParam(d.startPositionMs, Num(0)),
                    !.sessionStartAtServerMs = d.startAtServerMs]
       IN [st |-> s1,
           out |-> <<Msg("play",
                     [startAtServerMs |-> s1.sessionStartAtServerMs,
                      startPositionMs |-> s1.sessionPauseAtPositionMs])>>]

OnPlay(st, d, t) ==
  IF ~Truthy(st.currentTrackUrl)
  THEN [st |-> st, out |-> <<>>]
  ELSE LET s1 == [st EXCEPT
                    !.sessionPaused = FALSE,
                    !.sessionPauseAtPositionMs =
                       DefaultParam(d.startPositionMs, Num(0)),
                    !.sessionStartAtServerMs =
                       OrElse(d.startAtServerMs, Num(t + LeadMs))]
       IN [st |-> s1,
           out |-> <<Msg("play",
                     [startAtServerMs |-> s1.sessionStartAtServerMs,
                      startPositionMs |-> s1.sessionPauseAtPositionMs])>>]

\* A pause that flips sessionPaused.
OnPauseToggle(st, d, t) ==
  LET s1 == [st EXCEPT !.sessionPaused = ~st.sessionPaused,
                       !.sessionPauseAtPositionMs = d.positionMs]
  IN [st |-> s1,
      out |-> <<Msg("pause",
                [positionMs |-> SessionPauseAtServerMs(d.positionMs)])>>]

\* A pause that also clears sessionStartAtServerMs.
OnPauseClearing(st, d, t) ==
  LET s1 == [st EXCEPT !.sessionPaused = TRUE,
                       !.sessionStartAtServerMs = Null,
                       !.sessionPauseAtPositionMs = d.positionMs]
  IN [st |-> s1,
      out |-> <<Msg("pause",
                [positionMs |-> SessionPauseAtServerMs(d.positionMs)])>>]

\* A pause that is applied to the session but broadcast to nobody.
OnPauseSilent(st, d, t) ==
  LET s1 == [st EXCEPT !.sessionPaused = TRUE,
                       !.sessionPauseAtPositionMs = d.positionMs]
  IN [st |-> s1, out |-> <<>>]

OnPause(st, d, t) ==
  LET s1 == [st EXCEPT !.sessionPaused = TRUE,
                       !.sessionPauseAtPositionMs = d.positionMs]
  IN [st |-> s1,
      out |-> <<Msg("pause",
                [positionMs |-> SessionPauseAtServerMs(d.positionMs)])>>]

\* A seek that broadcasts the payload as it was supplied.
OnSeekEchoPayload(st, d, t) ==
  LET s1 == [st EXCEPT
               !.sessionPauseAtPositionMs = d.positionMs,
               !.sessionStartAtServerMs =
                  OrElse(d.startAtServerMs, Num(t + LeadMs))]
  IN [st |-> s1,
      out |-> <<Msg("seek",
                [positionMs |-> d.positionMs,
                 startAtServerMs |-> d.startAtServerMs])>>]

OnSeek(st, d, t) ==
  LET s1 == [st EXCEPT
               !.sessionPauseAtPositionMs = d.positionMs,
               !.sessionStartAtServerMs =
                  OrElse(d.startAtServerMs, Num(t + LeadMs))]
  IN [st |-> s1,
      out |-> <<Msg("seek",
                [positionMs |-> s1.sessionPauseAtPositionMs,
                 startAtServerMs |-> s1.sessionStartAtServerMs])>>]

\* The handler registered for a command event.
Handle(e, st, d, t) ==
  CASE e = "track:set" -> OnTrackSet(st, d, t)
    [] e = "play" -> OnPlay(st, d, t)
    [] e = "pause" -> OnPause(st, d, t)
    [] e = "seek" -> OnSeek(st, d, t)

(***************************************************************************)
(* State.                                                                  *)
(***************************************************************************)
VARIABLES
  rooms,     \* the `rooms` Map: room id -> session
  roomOf,    \* per socket: the room it joined, NoRoom while not connected
  inbox,     \* per socket: the messages emitted to it, in emission order
  now,       \* Date.now()
  events,    \* commands, pings and clock advances so far
  received,  \* history: per room, the commands received, in receipt order
  bcast      \* history: per room, the messages of io.to(room).emit, in order

vars == <<rooms, roomOf, inbox, now, events, received, bcast>>

\* An emit that puts the messages ahead of those already queued.
EmitToFront(box, roomId, out) ==
  [s \in Sockets |-> IF roomOf[s] = roomId THEN out \o box[s] ELSE box[s]]

\* io.emit(...): every connected socket gets the messages.
EmitToAll(box, roomId, out) ==
  [s \in Sockets |-> IF roomOf[s] # NoRoom THEN box[s] \o out ELSE box[s]]

\* io.to(roomId).emit(...): every socket in the room gets the messages.
EmitTo(box, roomId, out) ==
  [s \in Sockets |-> IF roomOf[s] = roomId THEN box[s] \o out ELSE box[s]]

Init ==
  /\ rooms = <<>>
  /\ roomOf = [s \in Sockets |-> NoRoom]
  /\ inbox = [s \in Sockets |-> <<>>]
  /\ now = 1000
  /\ events = 0
  /\ received = [r \in RoomIds |-> <<>>]
  /\ bcast = [r \in RoomIds |-> <<>>]

\* The wall clock advances.
Tick ==
  /\ now' = now + 50
  /\ events' = events + 1
  /\ UNCHANGED <<rooms, roomOf, inbox, received, bcast>>

\* io.on('connection'): join the room, create its session, send `welcome`.
Connection(s, q) ==
  /\ roomOf[s] = NoRoom
  /\ LET roomId == RoomIdOf(q)
         m == GetRoom(rooms, roomId)
     IN /\ roomOf' = [roomOf EXCEPT ![s] = roomId]
        /\ rooms' = m
        /\ inbox' = [inbox EXCEPT ![s] = <<Welcome(roomId, m[roomId], now)>>]
  /\ UNCHANGED <<now, events, received, bcast>>

\* A disconnect that deletes the session of a room left without members.
DisconnectDropsEmptyRoom(s) ==
  /\ roomOf[s] # NoRoom
  /\ roomOf' = [roomOf EXCEPT ![s] = NoRoom]
  /\ inbox' = [inbox EXCEPT ![s] = <<>>]
  /\ rooms' = IF \E o \in Sockets \ {s} : roomOf[o] = roomOf[s]
              THEN rooms
              ELSE [r \in DOMAIN rooms \ {roomOf[s]} |-> rooms[r]]
  /\ UNCHANGED <<now, events, received, bcast>>

\* The connection closes: socket.io takes the socket out of its room, and
\* nothing more is emitted to it.
Disconnect(s) ==
  /\ roomOf[s] # NoRoom
  /\ roomOf' = [roomOf EXCEPT ![s] = NoRoom]
  /\ inbox' = [inbox EXCEPT ![s] = <<>>]
  /\ UNCHANGED <<rooms, now, events, received, bcast>>

\* A clock:ping answered with io.to(roomId).emit.
ClockPingBroadcast(s, clientPing) ==
  /\ roomOf[s] # NoRoom
  /\ events' = events + 1
  /\ inbox' = EmitTo(inbox, roomOf[s],
        <<Msg("clock:pong", [tServer |-> Num(now), echo |-> clientPing])>>)
  /\ UNCHANGED <<rooms, roomOf, now, received, bcast>>

\* socket.on('clock:ping')
ClockPing(s, clientPing) ==
  /\ roomOf[s] # NoRoom
  /\ events' = events + 1
  /\ inbox' = [inbox EXCEPT ![s] =
        Append(@, Msg("clock:pong", [tServer |-> Num(now), echo |-> clientPing]))]
  /\ UNCHANGED <<rooms, roomOf, now, received, bcast>>

\* A command handler that broadcasts with socket.to(roomId), which leaves
\* out the issuing socket.
CommandNoEcho(s, e, d) ==
  /\ roomOf[s] # NoRoom
  /\ events' = events + 1
  /\ LET roomId == roomOf[s]
         m == GetRoom(rooms, roomId)
         h == Handle(e, m[roomId], d, now)
     IN /\ rooms' = [m EXCEPT ![roomId] = h.st]
        /\ inbox' = [EmitTo(inbox, roomId, h.out) EXCEPT ![s] = inbox[s]]
        /\ bcast' = [bcast EXCEPT ![roomId] = @ \o h.out]
        /\ received' = [received EXCEPT ![roomId] =
              Append(@, [event |-> e, data |-> d, t |-> now])]
  /\ UNCHANGED <<roomOf, now>>

\* A command handler of socket s runs on payload d.
Command(s, e, d) ==
  /\ roomOf[s] # NoRoom
  /\ events' = events + 1
  /\ LET roomId == roomOf[s]
         m == GetRoom(rooms, roomId)
         h == Handle(e, m[roomId], d, now)
     IN /\ rooms' = [m EXCEPT ![roomId] = h.st]
        /\ inbox' = EmitTo(inbox, roomId, h.out)
        /\ bcast' = [bcast EXCEPT ![roomId] = @ \o h.out]
        /\ received' = [received EXCEPT ![roomId] =
              Append(@, [event |-> e, data |-> d, t |-> now])]
  /\ UNCHANGED <<roomOf, now>>

TrackSet(s) == \E d \in TrackSetPayloads : Command(s, "track:set", d)

Play(s) == \E d \in PlayPayloads : Command(s, "play", d)

Pause(s) == \E d \in PausePayloads : Command(s, "pause", d)

Seek(s) == \E d \in SeekPayloads : Command(s, "seek", d)

\* One room: every connection asks for no room and lands in 'default'.
Next ==
  \/ events < MaxEvents /\ Tick
  \/ \E s \in Sockets, q \in HomeQueries : Connection(s, q)
  \/ \E s \in Sockets : Disconnect(s)
  \/ \E s \in Sockets, c \in Pings : events < MaxEvents /\ ClockPing(s, c)
  \/ \E s \in Sockets : events < MaxEvents /\ TrackSet(s)
  \/ \E s \in Sockets : events < MaxEvents /\ Play(s)
  \/ \E s \in Sockets : events < MaxEvents /\ Pause(s)
  \/ \E s \in Sockets : events < MaxEvents /\ Seek(s)

Spec == Init /\ [][Next]_vars

\* Several rooms: connections may ask for a room of their own.
NextRooms ==
  \/ events < MaxRoomEvents /\ Tick
  \/ \E s \in Sockets, q \in Queries : Connection(s, q)
  \/ \E s \in Sockets : Disconnect(s)
  \/ \E s \in Sockets, c \in Pings : events < MaxRoomEvents /\ ClockPing(s, c)
  \/ \E s \in Sockets : events < MaxRoomEvents /\ TrackSet(s)
  \/ \E s \in Sockets : events < MaxRoomEvents /\ Play(s)
  \/ \E s \in Sockets : events < MaxRoomEvents /\ Pause(s)
  \/ \E s \in Sockets : events < MaxRoomEvents /\ Seek(s)

SpecRooms == Init /\ [][NextRooms]_vars

(***************************************************************************)
(* Vocabulary of the properties.                                           *)
(***************************************************************************)
Commands ==
  {[event |-> "track:set", data |-> d] : d \in TrackSetPayloads}
    \cup {[event |-> "play", data |-> d] : d \in PlayPayloads}
    \cup {[event |-> "pause", data |-> d] : d \in PausePayloads}
    \cup {[event |-> "seek", data |-> d] : d \in SeekPayloads}

\* The session of room r (a new one while the room was never referenced).
Session(r) == GetRoom(rooms, r)[r]

Members(r) == {s \in Sockets : roomOf[s] = r}

\* The session left by the commands of a log, applied one at a time.
RECURSIVE Replay(_, _)
Replay(log, st) ==
  IF log = <<>> THEN st
  ELSE LET c == Head(log)
       IN Replay(Tail(log), Handle(c.event, st, c.data, c.t).st)

\* The broadcasts of the commands of a log, applied one at a time.
RECURSIVE ReplayOut(_, _)
ReplayOut(log, st) ==
  IF log = <<>> THEN <<>>
  ELSE LET c == Head(log)
           h == Handle(c.event, st, c.data, c.t)
       IN h.out \o ReplayOut(Tail(log), h.st)

\* The event a command is broadcast as.
BroadcastOf(e) == IF e = "track:set" THEN "track:updated" ELSE e

\* The broadcast events a log calls for: one per command, in order, but
\* none for a play received while the room has no track.
RECURSIVE ExpectedEvents(_, _)
ExpectedEvents(log, st) ==
  IF log = <<>> THEN <<>>
  ELSE LET c == Head(log)
           rest == ExpectedEvents(Tail(log), Handle(c.event, st, c.data, c.t).st)
       IN IF c.event = "play" /\ ~Truthy(st.currentTrackUrl)
          THEN rest
          ELSE <<BroadcastOf(c.event)>> \o rest

EventsOf(msgs) == [i \in 1..Len(msgs) |-> msgs[i].event]

IsBroadcast(m) == m.event \notin {"welcome", "clock:pong"}

\* The room broadcasts a socket has been sent since it joined.
Observed(s) == SelectSeq(inbox[s], IsBroadcast)

IsSuffix(a, b) ==
  /\ Len(a) <= Len(b)
  /\ \A i \in 1..Len(a) : a[i] = b[Len(b) - Len(a) + i]

\* Number.isFinite
IsFinite(v) == v.t = "number"

\* A session field that holds no value.
Absent(v) == v \in {Null, Undefined}

LastOf(seq) == seq[Len(seq)]

\* In this step the members of room r, and no other socket, are sent out.
SentToRoom(r, out) ==
  \A s \in Sockets :
    inbox'[s] = IF roomOf[s] = r THEN inbox[s] \o out ELSE inbox[s]

(***************************************************************************)
(* C1.  Within one room the broadcasts are emitted in the order the        *)
(* commands were received, one per applied command, none merged or         *)
(* dropped, and every member is sent them in that order.                   *)
(***************************************************************************)
C1_BroadcastOrder ==
  \A r \in RoomIds :
    /\ EventsOf(bcast[r]) = ExpectedEvents(received[r], NewSession)
    /\ \A s \in Members(r) : IsSuffix(Observed(s), bcast[r])

\* Play then Pause were received in that order, and both members of the
\* room were sent play before pause.
C1_Witness ==
  \E r \in RoomIds :
    /\ Members(r) = Sockets
    /\ EventsOf(received[r]) = <<"track:set", "play", "pause">>
    /\ \A s \in Sockets : IsSuffix(<<"play", "pause">>, EventsOf(Observed(s)))

(***************************************************************************)
(* C2.  Commands of several connections for one room are applied one at a  *)
(* time: the room's session is always the one the received commands give   *)
(* when applied in receipt order, and the broadcasts are theirs.           *)
(***************************************************************************)
C2_Serialized ==
  \A r \in RoomIds :
    /\ Session(r) = Replay(received[r], NewSession)
    /\ bcast[r] = ReplayOut(received[r], NewSession)

\* Two connections are in the room, three commands were received, and the
\* session holds fields written by different commands.
C2_Witness ==
  \E r \in RoomIds :
    /\ Members(r) = Sockets
    /\ Len(received[r]) = 3
    /\ Truthy(Session(r).currentTrackUrl)
    /\ ~Session(r).sessionPaused
    /\ Session(r).sessionPauseAtPositionMs = Num(700)

(***************************************************************************)
(* C3.  As claimed: a pause, in any room state, sets paused, stores the    *)
(* supplied position, discards the anchor time, and broadcasts the         *)
(* supplied position unchanged.                                            *)
(***************************************************************************)
C3_PauseDiscardsAnchor ==
  [][\A s \in Sockets, d \in PausePayloads :
       Command(s, "pause", d) =>
         LET r == roomOf[s]
         IN /\ rooms'[r].sessionPaused
            /\ rooms'[r].sessionPauseAtPositionMs = d.positionMs
            /\ Absent(rooms'[r].sessionStartAtServerMs)
            /\ SentToRoom(r, <<Msg("pause", [positionMs |-> d.positionMs])>>)]_vars

\* C3 as amended: a pause, in any room state, sets paused, stores the
\* supplied position, leaves the anchor time and the track as they were,
\* and broadcasts the supplied position unchanged.
C3_PauseKeepsAnchor ==
  [][\A s \in Sockets, d \in PausePayloads :
       Command(s, "pause", d) =>
         LET r == roomOf[s]
         IN /\ rooms'[r].sessionPaused
            /\ rooms'[r].sessionPauseAtPositionMs = d.positionMs
            /\ rooms'[r].sessionStartAtServerMs = rooms[r].sessionStartAtServerMs
            /\ rooms'[r].currentTrackUrl = rooms[r].currentTrackUrl
            /\ SentToRoom(r, <<Msg("pause", [positionMs |-> d.positionMs])>>)]_vars

\* A room was paused after a play, and its session still holds the anchor
\* time of the play.
C3_Witness ==
  \E r \in RoomIds :
    /\ EventsOf(received[r]) = <<"track:set", "play", "pause">>
    /\ Session(r).sessionPaused
    /\ Session(r).sessionPauseAtPositionMs = LastOf(received[r]).data.positionMs
    /\ ~Absent(Session(r).sessionStartAtServerMs)
    /\ \A s \in Members(r) : LastOf(inbox[s]).event = "pause"

(***************************************************************************)
(* C4.  As claimed: a command that lacks a required field or carries a     *)
(* position that is not a finite number changes no session and is          *)
(* broadcast to nobody.                                                    *)
(***************************************************************************)
Supplied(v) == v # Undefined

Malformed(c) ==
  CASE c.event = "track:set" -> ~Supplied(c.data.url)
    [] c.event = "play" ->
         Supplied(c.data.startPositionMs) /\ ~IsFinite(c.data.startPositionMs)
    [] c.event = "pause" -> ~IsFinite(c.data.positionMs)
    [] c.event = "seek" -> ~IsFinite(c.data.positionMs)

C4_MalformedRejected ==
  [][\A s \in Sockets, c \in Commands :
       (Malformed(c) /\ Command(s, c.event, c.data)) =>
         (rooms' = rooms /\ inbox' = inbox)]_vars

(***************************************************************************)
(* C5.  As claimed: a play in a room with a track clears paused, stores    *)
(* the supplied start position (0 when omitted) and stores the supplied    *)
(* anchor time whatever number it is, 0 included; only when none is        *)
(* supplied is the anchor time now + 500 ms.                               *)
(***************************************************************************)
C5_PlayStoresAnchor ==
  [][\A s \in Sockets, d \in PlayPayloads :
       (Command(s, "play", d) /\ Truthy(rooms[roomOf[s]].currentTrackUrl)) =>
         LET r == roomOf[s]
         IN /\ ~rooms'[r].sessionPaused
            /\ rooms'[r].sessionPauseAtPositionMs =
                  (IF Supplied(d.startPositionMs) THEN d.startPositionMs ELSE Num(0))
            /\ rooms'[r].sessionStartAtServerMs =
                  (IF Supplied(d.startAtServerMs) THEN d.startAtServerMs
                   ELSE Num(now + LeadMs))]_vars

(***************************************************************************)
(* C6.  A play received while the room has no track changes no field of    *)
(* any session and sends nothing to any connection, whatever its payload.  *)
(***************************************************************************)
C6_PlayWithoutTrack ==
  [][\A s \in Sockets, d \in PlayPayloads :
       (Command(s, "play", d) /\ ~Truthy(rooms[roomOf[s]].currentTrackUrl)) =>
         (rooms' = rooms /\ inbox' = inbox /\ bcast' = bcast)]_vars

\* A play that names an anchor time and a position was received in a room
\* that had no track: the session is as new and nobody was sent anything.
C6_Witness ==
  \E r \in RoomIds :
    /\ Members(r) = Sockets
    /\ Len(received[r]) = 2
    /\ received[r][1].event = "track:set" /\ received[r][1].data.url = Null
    /\ received[r][2].event = "play"
    /\ received[r][2].data.startAtServerMs = Num(900)
    /\ Session(r) = NewSession
    /\ Len(bcast[r]) = 1
    /\ \A s \in Sockets : \A i \in 1..Len(inbox[s]) : inbox[s][i].event # "play"

(***************************************************************************)
(* C7.  A track:set is accepted in every room state: the session becomes   *)
(* the supplied track, paused, position 0, no anchor time, and every       *)
(* member of the room, and nobody else, is sent track:updated with these   *)
(* four values.                                                            *)
(***************************************************************************)
C7_SetTrack ==
  [][\A s \in Sockets, d \in TrackSetPayloads :
       Command(s, "track:set", d) =>
         LET r == roomOf[s]
             after == [currentTrackUrl |-> d.url,
                       sessionStartAtServerMs |-> Null,
                       sessionPaused |-> TRUE,
                       sessionPauseAtPositionMs |-> Num(0)]
         IN /\ rooms'[r] = after
            /\ SentToRoom(r, <<Msg("track:updated", after)>>)]_vars

\* A track was set while the room was playing, and both members were sent
\* the update.
C7_Witness ==
  \E r \in RoomIds :
    /\ Members(r) = Sockets
    /\ EventsOf(received[r]) = <<"track:set", "play", "track:set">>
    /\ EventsOf(bcast[r]) = <<"track:updated", "play", "track:updated">>
    /\ Session(r).sessionPaused
    /\ \A s \in Sockets : LastOf(inbox[s]) = Msg("track:updated", Session(r))

(***************************************************************************)
(* C8.  As claimed: a seek stores the supplied position, stores the        *)
(* supplied anchor time or, when none is supplied, now + 500 ms, and       *)
(* leaves paused and the track as they were.                               *)
(***************************************************************************)
C8_SeekStoresAnchor ==
  [][\A s \in Sockets, d \in SeekPayloads :
       Command(s, "seek", d) =>
         LET r == roomOf[s]
         IN /\ rooms'[r].sessionPauseAtPositionMs = d.positionMs
            /\ rooms'[r].sessionStartAtServerMs =
                  (IF Supplied(d.startAtServerMs) THEN d.startAtServerMs
                   ELSE Num(now + LeadMs))
            /\ rooms'[r].sessionPaused = rooms[r].sessionPaused
            /\ rooms'[r].currentTrackUrl = rooms[r].currentTrackUrl]_vars

(***************************************************************************)
(* C9.  A connection that joins a room is sent, alone, a welcome with the  *)
(* server's current time and the four fields of the session that the       *)
(* commands applied to the room before the join produce.                   *)
(***************************************************************************)
C9_JoinSnapshot ==
  [][\A s \in Sockets, q \in Queries :
       Connection(s, q) =>
         LET r == RoomIdOf(q)
             st == Replay(received[r], NewSession)
         IN /\ inbox'[s] =
                 <<Msg("welcome",
                       [serverTimeMs |-> Num(now),
                        roomId |-> r,
                        state |->
                          [currentTrackUrl |-> st.currentTrackUrl,
                           sessionStartAtServerMs |-> st.sessionStartAtServerMs,
                           sessionPaused |-> st.sessionPaused,
                           sessionPauseAtPositionMs |-> st.sessionPauseAtPositionMs]])>>
            /\ \A o \in Sockets \ {s} : inbox'[o] = inbox[o]]_vars

\* A connection has just joined a room that is playing a track: its
\* welcome shows the track, the anchor and paused = false.
C9_Witness ==
  \E s \in Sockets :
    /\ roomOf[s] # NoRoom
    /\ Len(received[roomOf[s]]) >= 2
    /\ Len(inbox[s]) = 1
    /\ inbox[s][1].event = "welcome"
    /\ inbox[s][1].data.serverTimeMs = Num(now)
    /\ Truthy(inbox[s][1].data.state.currentTrackUrl)
    /\ ~inbox[s][1].data.state.sessionPaused
    /\ inbox[s][1].data.state = Session(roomOf[s])

(***************************************************************************)
(* C10.  A command from a connection of one room changes the session of    *)
(* that room only and is sent to the connections of that room only: every  *)
(* other room's session, and every other room's members' messages, are     *)
(* unchanged.                                                              *)
(***************************************************************************)
C10_RoomIsolation ==
  [][\A s \in Sockets, c \in Commands :
       Command(s, c.event, c.data) =>
         /\ DOMAIN rooms' = DOMAIN rooms
         /\ \A r \in DOMAIN rooms \ {roomOf[s]} : rooms'[r] = rooms[r]
         /\ \A r \in RoomIds \ {roomOf[s]} : bcast'[r] = bcast[r]
         /\ \A o \in Sockets : roomOf[o] # roomOf[s] => inbox'[o] = inbox[o]]_vars

\* Two rooms, one connection in each, one command applied to each: each
\* member was sent its own room's broadcast only.
C10_Witness ==
  \E a, b \in RoomIds, s, o \in Sockets :
    /\ a # b /\ roomOf[s] = a /\ roomOf[o] = b
    /\ Len(received[a]) = 1 /\ Len(received[b]) = 1
    /\ Session(a) # Session(b)
    /\ Observed(s) = bcast[a] /\ Observed(o) = bcast[b]
    /\ Len(bcast[a]) = 1 /\ Len(bcast[b]) = 1
    /\ bcast[a] # bcast[b]

(***************************************************************************)
(* Vocabulary of the claims about a command received twice in succession.  *)
(***************************************************************************)
\* The commands a room received before the last one.
Earlier(r) == SubSeq(received[r], 1, Len(received[r]) - 1)

\* The last two commands room r received are the same command.
Repeated(r) ==
  /\ Len(received[r]) >= 2
  /\ LastOf(received[r]).event = LastOf(Earlier(r)).event
  /\ LastOf(received[r]).data = LastOf(Earlier(r)).data

\* The session of room r when the command was applied once only.
AppliedOnce(r) == Replay(Earlier(r), NewSession)

\* The command names an anchor time that the handler stores.
NamesAnchor(c) ==
  c.event \in {"play", "seek"} => Truthy(c.data.startAtServerMs)

\* The command is well formed and names no anchor time 0, so neither the
\* missing validation (C4) nor the falsy anchor 0 (C5) bears on it.
Plain(c) ==
  /\ ~Malformed(c)
  /\ c.event \in {"play", "seek"} => c.data.startAtServerMs # Num(0)

(***************************************************************************)
(* C11.  As claimed: applying any command twice in succession, a play or   *)
(* seek without an anchor time included, leaves the session that applying  *)
(* it once leaves.  Stated of the plain commands, which the claim covers.  *)
(***************************************************************************)
C11_Idempotent ==
  \A r \in RoomIds :
    (Repeated(r) /\ Plain(LastOf(received[r]))) => Session(r) = AppliedOnce(r)

\* C11 as amended: a track:set, a pause, and a play or seek that names a
\* non-zero anchor time, applied twice, leave the session that applying
\* them once leaves; a play or seek whose anchor time is omitted, applied
\* twice, leaves the same track, paused and position, and the anchor time
\* of its last application, that application's now + 500 ms.
C11_IdempotentButAnchor ==
  \A r \in RoomIds :
    Repeated(r) =>
      LET c == LastOf(received[r])
          once == AppliedOnce(r)
      IN IF NamesAnchor(c)
         THEN Session(r) = once
         ELSE /\ Session(r).currentTrackUrl = once.currentTrackUrl
              /\ Session(r).sessionPaused = once.sessionPaused
              /\ Session(r).sessionPauseAtPositionMs = once.sessionPauseAtPositionMs
              /\ \/ Session(r) = once
                 \/ Session(r).sessionStartAtServerMs = Num(c.t + LeadMs)

\* A seek without an anchor time was received twice, the clock having
\* advanced in between: the second moved the anchor time, and nothing else.
C11_Witness ==
  \E r \in RoomIds :
    /\ Repeated(r)
    /\ LastOf(received[r]).event = "seek"
    /\ LastOf(received[r]).data.startAtServerMs = Undefined
    /\ Plain(LastOf(received[r]))
    /\ LastOf(received[r]).t # LastOf(Earlier(r)).t
    /\ Session(r) # AppliedOnce(r)
    /\ Session(r).sessionPauseAtPositionMs = AppliedOnce(r).sessionPauseAtPositionMs

(***************************************************************************)
(* C12.  A pause at position p applied twice leaves, in all four fields,   *)
(* the session that applying it once leaves.                               *)
(***************************************************************************)
C12_PauseIdempotent ==
  \A r \in RoomIds :
    (Repeated(r) /\ LastOf(received[r]).event = "pause") =>
      Session(r) = AppliedOnce(r)

\* A playing room received the same pause twice, at different times.
C12_Witness ==
  \E r \in RoomIds :
    /\ Repeated(r)
    /\ LastOf(received[r]).event = "pause"
    /\ LastOf(received[r]).data.positionMs = Num(300)
    /\ Len(received[r]) = 3
    /\ ~Absent(Session(r).sessionStartAtServerMs)
    /\ Session(r).sessionPaused
    /\ Session(r).sessionPauseAtPositionMs = Num(300)

\* In this step room r receives a command.
JustReceived(r) == Len(received'[r]) = Len(received[r]) + 1

(***************************************************************************)
(* C13.  Commands are not connection-scoped: the session, the messages     *)
(* sent and every other effect of a command are the same whichever member  *)
(* of the room issues it, so the state a sequence of commands leaves       *)
(* depends on the commands and their order of arrival only.                *)
(***************************************************************************)
C13_NotConnectionScoped ==
  [][\A s \in Sockets :
       (roomOf[s] # NoRoom /\ JustReceived(roomOf[s])) =>
         LET c == LastOf(received'[roomOf[s]])
         IN Command(s, c.event, c.data) =>
              \A o \in Members(roomOf[s]) : Command(o, c.event, c.data)]_vars

\* Two connections share a room that received three commands; the session
\* is the last writer's and both connections were sent the same broadcasts.
C13_Witness ==
  \E r \in RoomIds :
    /\ Members(r) = Sockets
    /\ EventsOf(received[r]) = <<"track:set", "seek", "play">>
    /\ Session(r).sessionPauseAtPositionMs = LastOf(received[r]).data.startPositionMs
    /\ \A s \in Sockets : Observed(s) = bcast[r]
    /\ Len(bcast[r]) = 3

(***************************************************************************)
(* C14.  Every broadcast emitted for a command carries the values the      *)
(* room's session holds right after the command was applied, the members   *)
(* of the room (and nobody else) are all sent that one payload, and a play *)
(* with neither anchor nor position is sent to all of them as              *)
(* startAtServerMs = now + 500 and startPositionMs = 0.  (The payloads are *)
(* those handed to io.to(roomId).emit.)                                    *)
(***************************************************************************)
\* Message m carries the fields of session st that its event stands for.
Carries(m, st) ==
  CASE m.event = "track:updated" -> m.data = Snapshot(st)
    [] m.event = "play" ->
         /\ m.data.startAtServerMs = st.sessionStartAtServerMs
         /\ m.data.startPositionMs = st.sessionPauseAtPositionMs
    [] m.event = "pause" -> m.data.positionMs = st.sessionPauseAtPositionMs
    [] m.event = "seek" ->
         /\ m.data.positionMs = st.sessionPauseAtPositionMs
         /\ m.data.startAtServerMs = st.sessionStartAtServerMs
    [] OTHER -> FALSE

\* The broadcasts of room r emitted in this step.
Emitted(r) == SubSeq(bcast'[r], Len(bcast[r]) + 1, Len(bcast'[r]))

BarePlay == [startAtServerMs |-> Undefined, startPositionMs |-> Undefined]

C14_BroadcastsCarryState ==
  [][\A r \in RoomIds :
       JustReceived(r) =>
         LET c == LastOf(received'[r])
             out == Emitted(r)
         IN /\ Len(out) <= 1
            /\ SentToRoom(r, out)
            /\ \A i \in 1..Len(out) : Carries(out[i], rooms'[r])
            /\ (c.event = "play" /\ c.data = BarePlay
                  /\ Truthy(Session(r).currentTrackUrl)) =>
                 out = <<Msg("play", [startAtServerMs |-> Num(now + LeadMs),
                                      startPositionMs |-> Num(0)])>>]_vars

\* A room with two members received a play with no arguments, and the last
\* message of both is the play with the anchor 500 ms after the receipt.
C14_Witness ==
  \E r \in RoomIds :
    /\ Members(r) = Sockets
    /\ received[r] # <<>>
    /\ LET c == LastOf(received[r])
       IN /\ c.event = "play" /\ c.data = BarePlay
          /\ c.t > 1000
          /\ \A s \in Sockets :
               LastOf(inbox[s]) =
                 Msg("play", [startAtServerMs |-> Num(c.t + LeadMs),
                              startPositionMs |-> Num(0)])
          /\ Session(r).sessionStartAtServerMs = Num(c.t + LeadMs)
          /\ Session(r).sessionPauseAtPositionMs = Num(0)

(***************************************************************************)
(* C15.  A room's session is new when the room is first referenced, and    *)
(* only a command changes it: a step that is not a command for the room    *)
(* (a connect, a disconnect, a clock probe, a command for another room)    *)
(* leaves the session as it was and never takes it out of `rooms`, also    *)
(* when the room has no members left; a connection that joins is welcomed  *)
(* with the session as the last command left it.                           *)
(***************************************************************************)
C15_SurvivesChurn ==
  [][/\ \A r \in RoomIds :
          /\ r \in DOMAIN rooms => r \in DOMAIN rooms'
          /\ (r \notin DOMAIN rooms /\ r \in DOMAIN rooms') =>
                (received[r] = <<>> /\ rooms'[r] = NewSession)
          /\ ~JustReceived(r) => Session(r)' = Session(r)
     /\ \A s \in Sockets :
          (roomOf[s] = NoRoom /\ roomOf'[s] # NoRoom) =>
            /\ Len(inbox'[s]) = 1
            /\ inbox'[s][1].event = "welcome"
            /\ inbox'[s][1].data.state = Snapshot(Session(roomOf'[s]))]_vars

\* The only member of a playing room joined it after the last command, and
\* its welcome shows the track playing as that command left it.
C15_Witness ==
  \E r \in RoomIds, s \in Sockets :
    /\ Members(r) = {s}
    /\ \A o \in Sockets \ {s} : roomOf[o] = NoRoom
    /\ received[r] # <<>>
    /\ LastOf(received[r]).event = "play"
    /\ Len(inbox[s]) = 1
    /\ inbox[s][1].event = "welcome"
    /\ inbox[s][1].data.serverTimeMs.n > LastOf(received[r]).t
    /\ inbox[s][1].data.state = Snapshot(Session(r))
    /\ ~Session(r).sessionPaused
    /\ Session(r) = Replay(received[r], NewSession)

(***************************************************************************)
(* C16.  A clock:ping of a connection is answered with exactly one         *)
(* clock:pong, sent to that connection only, whose echo is the ping's      *)
(* payload and whose tServer is the server's time when it is handled; the  *)
(* step changes no session, no membership and no other connection's        *)
(* messages, and no clock:pong is ever part of a room's broadcasts.        *)
(***************************************************************************)
C16_ProbeStateless ==
  [][/\ \A s \in Sockets, c \in Pings :
          ClockPing(s, c) =>
            /\ inbox'[s] =
                 Append(inbox[s],
                        Msg("clock:pong", [tServer |-> Num(now), echo |-> c]))
            /\ \A o \in Sockets \ {s} : inbox'[o] = inbox[o]
            /\ rooms' = rooms
            /\ roomOf' = roomOf
            /\ bcast' = bcast
            /\ received' = received
     /\ \A r \in RoomIds :
          \A i \in 1..Len(bcast'[r]) : bcast'[r][i].event # "clock:pong"]_vars

\* Between a track:set and a play of a room with two members one of them
\* probed the clock: it alone holds the clock:pong, between the two
\* broadcasts, and the other member was sent the two broadcasts only.
C16_Witness ==
  \E s \in Sockets, o \in Sockets :
    /\ s # o
    /\ roomOf[s] = roomOf[o] /\ roomOf[s] # NoRoom
    /\ EventsOf(inbox[s]) = <<"welcome", "track:updated", "clock:pong", "play">>
    /\ inbox[s][3].data.echo \in Pings
    /\ EventsOf(inbox[o]) = <<"welcome", "track:updated", "play">>
    /\ ~Session(roomOf[s]).sessionPaused

(***************************************************************************)
(* C17.  In every reachable state, whatever commands with whatever         *)
(* payloads were received, a room that is not paused has an anchor time:   *)
(* sessionStartAtServerMs is neither null nor undefined (nor any other     *)
(* falsy value).                                                           *)
(***************************************************************************)
C17_PlayingHasAnchor ==
  \A r \in RoomIds :
    ~Session(r).sessionPaused =>
      /\ ~Absent(Session(r).sessionStartAtServerMs)
      /\ Truthy(Session(r).sessionStartAtServerMs)

\* A playing room received a seek whose anchor time is 0, which the code
\* takes as missing: the room still plays, anchored 500 ms after the seek.
C17_Witness ==
  \E r \in RoomIds :
    /\ EventsOf(received[r]) = <<"track:set", "play", "seek">>
    /\ LastOf(received[r]).data.startAtServerMs = Num(0)
    /\ ~Session(r).sessionPaused
    /\ Session(r).sessionStartAtServerMs =
         Num(LastOf(received[r]).t + LeadMs)

(***************************************************************************)
(* C18.  In every reachable state a room that is not paused has a track:   *)
(* currentTrackUrl is a non-empty string; a room whose track is null,      *)
(* undefined or empty is paused, also when the track was taken away by a   *)
(* track:set while the room was playing.                                   *)
(***************************************************************************)
C18_PlayingHasTrack ==
  \A r \in RoomIds :
    /\ ~Session(r).sessionPaused => Truthy(Session(r).currentTrackUrl)
    /\ ~Truthy(Session(r).currentTrackUrl) => Session(r).sessionPaused

\* A room that was playing received a track:set with a null url: it has no
\* track and is paused.
C18_Witness ==
  \E r \in RoomIds :
    /\ EventsOf(received[r]) = <<"track:set", "play", "track:set">>
    /\ LastOf(received[r]).data.url = Null
    /\ ~Replay(Earlier(r), NewSession).sessionPaused
    /\ Session(r).currentTrackUrl = Null
    /\ Session(r).sessionPaused

(***************************************************************************)
(* C19.  For every connection in a room the commands the room received     *)
(* split in two: those before the join, whose effect is the state of the   *)
(* connection's welcome, and those after it, whose broadcasts are exactly  *)
(* the broadcasts the connection was sent after the welcome, no command on *)
(* both sides or on neither.  So a client that starts from the welcome     *)
(* state and applies the broadcasts it was sent, in order, holds the       *)
(* track, the paused flag and the position of the room's session.          *)
(***************************************************************************)
\* What a broadcast tells a client about the session.
ApplyBroadcast(view, m) ==
  CASE m.event = "track:updated" -> m.data
    [] m.event = "play" ->
         [view EXCEPT !.sessionPaused = FALSE,
                      !.sessionStartAtServerMs = m.data.startAtServerMs,
                      !.sessionPauseAtPositionMs = m.data.startPositionMs]
    [] m.event = "pause" ->
         [view EXCEPT !.sessionPaused = TRUE,
                      !.sessionPauseAtPositionMs = m.data.positionMs]
    [] m.event = "seek" ->
         [view EXCEPT !.sessionStartAtServerMs = m.data.startAtServerMs,
                      !.sessionPauseAtPositionMs = m.data.positionMs]
    [] OTHER -> view

RECURSIVE ClientView(_, _)
ClientView(view, msgs) ==
  IF msgs = <<>> THEN view
  ELSE ClientView(ApplyBroadcast(view, Head(msgs)), Tail(msgs))

\* The state of the welcome socket s was sent when it joined.
WelcomeState(s) == inbox[s][1].data.state

C19_NoGap ==
  \A s \in Sockets :
    roomOf[s] # NoRoom =>
      LET r == roomOf[s]
          log == received[r]
          view == ClientView(WelcomeState(s), Observed(s))
      IN /\ inbox[s][1].event = "welcome"
         /\ \E k \in 0..Len(log) :
              LET before == Replay(SubSeq(log, 1, k), NewSession)
              IN /\ WelcomeState(s) = Snapshot(before)
                 /\ Observed(s) = ReplayOut(SubSeq(log, k + 1, Len(log)), before)
         /\ view.currentTrackUrl = Session(r).currentTrackUrl
         /\ view.sessionPaused = Session(r).sessionPaused
         /\ view.sessionPauseAtPositionMs = Session(r).sessionPauseAtPositionMs

\* A connection joined a room that already had a track while the other
\* member went on issuing commands: its welcome shows the track paused,
\* it was sent the later broadcasts but not the earlier ones, and the state
\* it derives is the playing session of the room.
C19_Witness ==
  \E s \in Sockets :
    /\ roomOf[s] # NoRoom
    /\ Members(roomOf[s]) = Sockets
    /\ Len(inbox[s]) >= 2
    /\ Truthy(WelcomeState(s).currentTrackUrl)
    /\ WelcomeState(s).sessionPaused
    /\ Observed(s) # <<>>
    /\ Len(Observed(s)) < Len(bcast[roomOf[s]])
    /\ ~Session(roomOf[s]).sessionPaused
    /\ ~ClientView(WelcomeState(s), Observed(s)).sessionPaused

====
